---- MODULE Spec2Model ----
(***************************************************************************)
(* A model of the fin-know retrieval-augmented QA application:             *)
(*   app/ingestion.py, app/vectorstore.py, app/retriever.py, app/main.py,  *)
(*   app/frontend.py, app/pages/page_add_documents.py,                     *)
(*   app/pages/page_converse.py.                                           *)
(* The remote services (Qdrant, the embedding API, the language model) are *)
(* modelled by what their client calls return or raise.                    *)
(***************************************************************************)
EXTENDS Integers, Sequences, FiniteSets, TLC

(* ------------------------------ bounds --------------------------------- *)

\* chunks of the longest modelled document
MaxChunks == 5
\* embed_and_store_chunks(batch_size=128), scaled down
batch_size == 2
\* uploads started in one behaviour, over all sessions
MaxUploads == 2
\* largest top_k a caller passes to search
MaxTopK == 2
\* client.scroll(limit=250), scaled down
ScrollLimit == 2
\* document ids a cache dict maps to
MaxDocIds == 3
\* points the collection holds when upsert is called directly
MaxStored == 4

(* ----------------------------- data ------------------------------------ *)

\* Browser sessions / request handlers that run the handlers below. The
\* specifications of uploads made one after the other run them in "s1".
Sessions == {"s1", "s2"}

\* Python's None, and every other empty (falsy) sequence.
None == <<>>

Min(a, b) == IF a < b THEN a ELSE b

\* uuid4(): the n-th identifier drawn; two draws never collide.
Uuid(n) == <<"uuid", n>>

\* hashlib.sha256(file_bytes).hexdigest(): one digest per byte content.
Hash(bytes) == <<"sha256", bytes>>

\* Byte contents of the PDFs that get uploaded: a PDF with no page, one
\* with a page that has no text, one with a few words, a long one.
Contents == {"empty", "blank", "short", "long"}

\* An uploaded file: its name and its bytes; "copy.pdf" has the bytes of "a.pdf".
UploadedFiles ==
  { [name |-> "a.pdf", bytes |-> "long"],
    [name |-> "copy.pdf", bytes |-> "long"],
    [name |-> "b.pdf", bytes |-> "short"],
    [name |-> "c.pdf", bytes |-> "empty"],
    [name |-> "d.pdf", bytes |-> "blank"] }

\* What process_document is handed: a path, Streamlit's UploadedFile
\* (attributes name, getvalue) or FastAPI's UploadFile (attributes filename,
\* file); a record's fields are the attributes of the object.
PathInput(f) == [path |-> f.name, read_bytes |-> f.bytes]

StreamlitUploadedFile(f) == [name |-> f.name, getvalue |-> f.bytes]

FastApiUploadFile(f) == [filename |-> f.name, file |-> f.bytes]

Ordinals == <<"#1", "#2", "#3", "#4", "#5", "#6">>

PageLabels == <<"Page 1", "Page 2">>

\* A piece of text, a sequence of words; a small piece is far shorter than
\* a chunk, any other fills one.
Piece(words, small) == [words |-> words, small |-> small]

\* pymupdf.open(...): the pages of the PDF, each the paragraphs that
\* page.get_text("text") gives. The long document has two pages, with its
\* first paragraph on the first.
PdfPages(bytes) ==
  CASE bytes = "empty" -> <<>>
    [] bytes = "blank" -> << <<>> >>
    [] bytes = "short" -> << <<Piece(<<"short">>, FALSE)>> >>
    [] OTHER ->
         << <<Piece(<<"long", Ordinals[1]>>, FALSE)>>,
            [k \in 1..(MaxChunks - 1) |-> Piece(<<"long", Ordinals[k + 1]>>, FALSE)] >>

\* all_text: for every page, "\n\nPage {page_num + 1}\n" and the page's text.
RECURSIVE AllText(_, _)
AllText(pdf, page_num) ==
  IF page_num >= Len(pdf) THEN <<>>
  ELSE <<Piece(<<PageLabels[page_num + 1]>>, TRUE)>> \o pdf[page_num + 1]
         \o AllText(pdf, page_num + 1)

\* splitter.split_text(all_text): the chunk texts, in order. Small pieces
\* are merged with what follows them up to the chunk size; the same text
\* always gives the same chunks.
RECURSIVE split_text(_)
split_text(text) ==
  IF text = <<>> THEN <<>>
  ELSE IF Len(text) > 1 /\ text[1].small
       THEN split_text(<<Piece(text[1].words \o text[2].words, text[2].small)>>
                         \o SubSeq(text, 3, Len(text)))
       ELSE <<text[1].words>> \o split_text(Tail(text))

(* ------------------------ app/ingestion.py ------------------------------ *)

\* original_filename: the name of the path, the name attribute of an
\* uploaded object that has one, or the default.
original_filename(file) ==
  IF "path" \in DOMAIN file THEN file.path
  ELSE IF "name" \in DOMAIN file THEN file.name
  ELSE "Unknown Document"

\* file_content_bytes, for the three kinds of input.
file_content_bytes(file) ==
  IF "path" \in DOMAIN file THEN file.read_bytes
  ELSE IF "getvalue" \in DOMAIN file THEN file.getvalue
  ELSE file.file

\* (mutant) the file's name is put in front of every chunk's text
process_document_NameInText(file, doc_id) ==
  LET texts == split_text(AllText(PdfPages(file_content_bytes(file)), 0))
      chunked_docs ==
        [k \in 1..Len(texts) |->
           [chunk_id |-> <<doc_id, "_", k - 1>>,
            text |-> <<original_filename(file)>> \o texts[k],
            doc_id |-> doc_id,
            filename |-> original_filename(file)]]
  IN [num_chunks |-> Len(chunked_docs),
      doc_id |-> doc_id,
      chunks |-> chunked_docs,
      file_hash |-> Hash(file_content_bytes(file))]

\* process_document(file) with doc_id = str(uuid4()) already drawn.
process_document(file, doc_id) ==
  LET texts == split_text(AllText(PdfPages(file_content_bytes(file)), 0))
      chunked_docs ==
        [k \in 1..Len(texts) |->
           [chunk_id |-> <<doc_id, "_", k - 1>>,
            text |-> texts[k],
            doc_id |-> doc_id,
            filename |-> original_filename(file)]]
  IN [num_chunks |-> Len(chunked_docs),
      doc_id |-> doc_id,
      chunks |-> chunked_docs,
      file_hash |-> Hash(file_content_bytes(file))]

(* ------------------------ app/vectorstore.py ---------------------------- *)

\* The embedding API: one vector per text, determined by the text.
Embedding(text) == [embedding_of |-> text]

\* embed_texts_openai(texts), when the API call does not raise.
embed_texts_openai(texts) ==
  IF texts = <<>> THEN <<>>
  ELSE [k \in 1..Len(texts) |-> Embedding(texts[k])]

\* models.PointStruct(id=..., vector=..., payload=...)
PointStruct(id, vector, payload) ==
  [id |-> id, vector |-> vector, payload |-> payload]

\* self.client.upsert(points=..., wait=True), when it does not raise: a
\* point whose id is in the collection replaces that point, any other is
\* added.
RECURSIVE ClientUpsert(_, _)
ClientUpsert(pts, new_points) ==
  IF new_points = <<>> THEN pts
  ELSE LET pt == new_points[1]
           held == {k \in DOMAIN pts : pts[k].id = pt.id}
           put == IF held = {} THEN Append(pts, pt)
                  ELSE [k \in DOMAIN pts |-> IF k \in held THEN pt ELSE pts[k]]
       IN ClientUpsert(put, Tail(new_points))

\* (mutant) the chunk_id is the point id instead of a new uuid
upsert_ChunkIdAsPointId(pts, ctr, embeddings, metadata_list) ==
  IF embeddings = <<>> THEN pts
  ELSE ClientUpsert(pts,
         [k \in 1..Min(Len(embeddings), Len(metadata_list)) |->
            PointStruct(metadata_list[k].chunk_id, embeddings[k], metadata_list[k])])

\* (mutant) the point id is the position in the batch instead of a new uuid
upsert_PositionAsPointId(pts, ctr, embeddings, metadata_list) ==
  IF embeddings = <<>> THEN pts
  ELSE ClientUpsert(pts,
         [k \in 1..Min(Len(embeddings), Len(metadata_list)) |->
            PointStruct(Uuid(k), embeddings[k], metadata_list[k])])

\* upsert(embeddings, metadata_list), when client.upsert does not raise:
\* the collection afterwards. ctr is the number of uuids drawn so far; zip
\* pairs the two lists up to the shorter one.
upsert(pts, ctr, embeddings, metadata_list) ==
  IF embeddings = <<>> THEN pts
  ELSE ClientUpsert(pts,
         [k \in 1..Min(Len(embeddings), Len(metadata_list)) |->
            PointStruct(Uuid(ctr + k), embeddings[k], metadata_list[k])])

\* The settings __init__ reads with os.getenv; an environment is the set of
\* those that are set.
EnvNames == {"QDRANT_URL", "QDRANT_API_KEY", "QDRANT_COLLECTION", "OPENAI_API_KEY"}

NotRaised == [type |-> "none", names |-> {}]

\* ValueError("<name> environment variable not set.")
ValueErrorNotSet(name) == [type |-> "ValueError", names |-> {name}]

\* What the Qdrant client raises when the server refuses or cannot serve a
\* request; the message names no setting.
UnexpectedResponse == [type |-> "UnexpectedResponse", names |-> {}]

\* A QdrantVectorStore object under construction or built: where __init__
\* stands, the environment it read, what it raised, the remote calls made.
StoreObject(at, env, raised, client_calls) ==
  [pc |-> at, env |-> env, raised |-> raised, client_calls |-> client_calls]

\* No object yet.
NoStore == StoreObject("none", {}, NotRaised, <<>>)

\* An object built with every setting, the collection being there.
ReadyStore == StoreObject("ready", EnvNames, NotRaised, <<"get_collections">>)

\* _init_collection after get_collections(): the collection is created
\* when its name is not among the names returned.
AfterGetCollections(env, exists) ==
  IF "QDRANT_COLLECTION" \in env /\ exists THEN "ready"
  ELSE "recreate_collection"

\* math.ceil(num_chunks / batch_size)
NumBatches(num_chunks) == (num_chunks + batch_size - 1) \div batch_size

\* (mutant) end_index stops one short of num_chunks
BatchOf_OneShort(chs, i) ==
  SubSeq(chs, i * batch_size + 1, Min((i + 1) * batch_size, Len(chs) - 1))

\* chunks[start_index:end_index] of batch i (zero-based)
BatchOf(chs, i) ==
  SubSeq(chs, i * batch_size + 1, Min((i + 1) * batch_size, Len(chs)))

BatchTexts(batch) == [k \in 1..Len(batch) |-> batch[k].text]

(* ------------------ app/pages/page_add_documents.py --------------------- *)

EmptyDict == <<>>

\* dict[key] = value
DictSet(d, key, value) ==
  [k \in DOMAIN d \cup {key} |-> IF k = key THEN value ELSE d[k]]

\* list(a_set), and the keys of a dict as it is iterated: the elements,
\* each once, in some order.
RECURSIVE ListOf(_)
ListOf(set) ==
  IF set = {} THEN <<>>
  ELSE LET x == CHOOSE y \in set : TRUE IN <<x>> \o ListOf(set \ {x})

\* The text of the cache file, a sequence of tokens: the punctuation of
\* JSON, string literals, bare words (no JSON), and bytes that are no text
\* in the encoding the file is opened with.
Tok(t, s) == [t |-> t, s |-> s]

LBrace == Tok("{", <<>>)
RBrace == Tok("}", <<>>)
Colon == Tok(":", <<>>)
Comma == Tok(",", <<>>)
Str(x) == Tok("str", x)
Word(x) == Tok("word", <<x>>)
BadBytes == Tok("bytes", <<"\\xff">>)

\* json.dump of the items of a dict of strings: "key": "value", ...
RECURSIVE DumpItems(_, _)
DumpItems(obj, keys) ==
  IF keys = <<>> THEN <<>>
  ELSE <<Str(keys[1]), Colon, Str(obj[keys[1]])>>
         \o (IF Len(keys) > 1 THEN <<Comma>> ELSE <<>>)
         \o DumpItems(obj, Tail(keys))

\* json.dump(cache_data, f): the text written for a dict of strings.
json_dump(obj) == <<LBrace>> \o DumpItems(obj, ListOf(DOMAIN obj)) \o <<RBrace>>

JSONDecodeError == [raised |-> "JSONDecodeError", value |-> EmptyDict]

\* The JSON decoder on the items of an object, text[i] being where a key is
\* expected; a key read twice keeps its last value.
RECURSIVE ParsePairs(_, _, _)
ParsePairs(text, i, acc) ==
  IF /\ i + 3 <= Len(text)
     /\ text[i].t = "str" /\ text[i + 1].t = ":" /\ text[i + 2].t = "str"
  THEN LET read == DictSet(acc, text[i].s, text[i + 2].s)
       IN CASE text[i + 3].t = "}" ->
                 IF i + 3 = Len(text) THEN [raised |-> "none", value |-> read]
                 ELSE JSONDecodeError
            [] text[i + 3].t = "," -> ParsePairs(text, i + 4, read)
            [] OTHER -> JSONDecodeError
  ELSE JSONDecodeError

\* json.load(f) on a file holding text: f.read() decodes the bytes
\* (UnicodeDecodeError), then the decoder reads one flat object of strings.
json_load(text) ==
  IF \E k \in DOMAIN text : text[k].t = "bytes"
  THEN [raised |-> "UnicodeDecodeError", value |-> EmptyDict]
  ELSE IF Len(text) >= 2 /\ text[1].t = "{"
       THEN IF text[2].t = "}"
            THEN IF Len(text) = 2 THEN [raised |-> "none", value |-> EmptyDict]
                 ELSE JSONDecodeError
            ELSE ParsePairs(text, 2, EmptyDict)
       ELSE JSONDecodeError

\* load_cache(): what it raises and what it returns; only
\* json.JSONDecodeError is caught.
load_cache(file) ==
  IF file.exists
  THEN LET loaded == json_load(file.text)
       IN IF loaded.raised = "JSONDecodeError"
          THEN [raised |-> "none", value |-> EmptyDict]
          ELSE loaded
  ELSE [raised |-> "none", value |-> EmptyDict]

\* (mutant) the file is opened with "a": the text is added at its end
save_cache_Append(file, cache_data) ==
  [exists |-> TRUE, text |-> file.text \o json_dump(cache_data)]

\* save_cache(cache_data): the file afterwards; open(CACHE_FILE, "w") cuts
\* what the file held.
save_cache(file, cache_data) ==
  [exists |-> TRUE, text |-> json_dump(cache_data)]

\* No cache file.
NoFile == [exists |-> FALSE, text |-> <<>>]

(* ------------------------------ state ---------------------------------- *)

VARIABLES
  points,                 \* the Qdrant collection: points in insertion order
  uuid_ctr,               \* uuids drawn so far
  cache_file,             \* processed_cache.json: whether it exists, its text
  pc,                     \* per session: where its handler stands
  flow,                   \* per session: "page" (Streamlit) or "api" (/upload)
  uploaded_file,          \* per session: the file being ingested
  processed_files_cache,  \* per session: the dict load_cache() returned
  new_doc_id,             \* per session: doc_data["doc_id"]
  chunks,                 \* per session: doc_data["chunks"]
  batch_index,            \* per session: i of the batch loop
  embeddings,             \* per session: the vectors of the current batch
  total_processed_chunks, \* per session
  calls,                  \* per session: calls made by embed_and_store_chunks
  status,                 \* per session: how the last upload ended
  begun,                  \* per session: uploads finished when this one began
  history,                \* finished uploads, oldest first
  uploads,                \* uploads started
  ret,                    \* what the last store operation or query returned
  collection_exists,      \* whether the Qdrant server has the collection
  vectorstore             \* per session: its QdrantVectorStore object

ingest_vars ==
  <<pc, flow, uploaded_file, processed_files_cache, new_doc_id, chunks,
    batch_index, embeddings, total_processed_chunks, calls, status, begun,
    history, uploads>>

vars ==
  <<points, uuid_ctr, cache_file, ingest_vars, ret, collection_exists,
    vectorstore>>

NoRet == [op |-> "none"]

\* The application before any request, the store object aside.
InitApp ==
  /\ points = <<>>
  /\ uuid_ctr = 0
  /\ cache_file = NoFile
  /\ pc = [s \in Sessions |-> "idle"]
  /\ flow = [s \in Sessions |-> "page"]
  /\ uploaded_file = [s \in Sessions |-> None]
  /\ processed_files_cache = [s \in Sessions |-> EmptyDict]
  /\ new_doc_id = [s \in Sessions |-> None]
  /\ chunks = [s \in Sessions |-> <<>>]
  /\ batch_index = [s \in Sessions |-> 0]
  /\ embeddings = [s \in Sessions |-> <<>>]
  /\ total_processed_chunks = [s \in Sessions |-> 0]
  /\ calls = [s \in Sessions |-> <<>>]
  /\ status = [s \in Sessions |-> "none"]
  /\ begun = [s \in Sessions |-> 0]
  /\ history = <<>>
  /\ uploads = 0
  /\ ret = NoRet

\* Every session has built its store object; the collection is there.
Init ==
  /\ InitApp
  /\ collection_exists = TRUE
  /\ vectorstore = [s \in Sessions |-> ReadyStore]

(* -------------------- one upload, step by step -------------------------- *)

\* progress_bar is given by the Streamlit page and absent on /upload.
HasProgressBar(s) == flow[s] = "page"

Call(op, batch, ok, ids) == [op |-> op, batch |-> batch, ok |-> ok, ids |-> ids]

CountCalls(log, op) == Cardinality({k \in DOMAIN log : log[k].op = op})

\* The entry a finished upload leaves in the history.
Finished(s, fl, f, how, doc_id, log, bg) ==
  [session |-> s, flow |-> fl, hash |-> Hash(f.bytes), doc_id |-> doc_id,
   status |-> how, embed_calls |-> CountCalls(log, "embed"),
   upsert_calls |-> CountCalls(log, "upsert"), begun |-> bg]

\* show_add_documents_page up to the cache test: load_cache(), the hash of
\* the uploaded bytes, and the cache-hit branch.
PageUpload(s, f) ==
  /\ pc[s] \in {"idle", "done"}
  /\ uploads < MaxUploads
  /\ uploads' = uploads + 1
  /\ flow' = [flow EXCEPT ![s] = "page"]
  /\ uploaded_file' = [uploaded_file EXCEPT ![s] = f]
  /\ begun' = [begun EXCEPT ![s] = Len(history)]
  /\ calls' = [calls EXCEPT ![s] = <<>>]
  /\ chunks' = [chunks EXCEPT ![s] = <<>>]
  /\ new_doc_id' = [new_doc_id EXCEPT ![s] = None]
  /\ batch_index' = [batch_index EXCEPT ![s] = 0]
  /\ embeddings' = [embeddings EXCEPT ![s] = <<>>]
  /\ total_processed_chunks' = [total_processed_chunks EXCEPT ![s] = 0]
  /\ load_cache(cache_file).raised = "none"
  /\ LET cache == load_cache(cache_file).value
         current_file_hash == Hash(f.bytes)
     IN /\ processed_files_cache' = [processed_files_cache EXCEPT ![s] = cache]
        /\ IF current_file_hash \in DOMAIN cache
           THEN /\ pc' = [pc EXCEPT ![s] = "done"]
                /\ status' = [status EXCEPT ![s] = "cache_hit"]
                /\ history' = Append(history,
                     Finished(s, "page", f, "cache_hit", cache[current_file_hash],
                                <<>>, Len(history)))
           ELSE /\ pc' = [pc EXCEPT ![s] = "process"]
                /\ status' = [status EXCEPT ![s] = "running"]
                /\ UNCHANGED history
  /\ UNCHANGED <<points, uuid_ctr, cache_file, ret>>
  /\ UNCHANGED <<collection_exists, vectorstore>>

\* upload_document(file) of /upload, up to its call of process_document.
ApiUpload(s, f) ==
  /\ pc[s] \in {"idle", "done"}
  /\ uploads < MaxUploads
  /\ uploads' = uploads + 1
  /\ flow' = [flow EXCEPT ![s] = "api"]
  /\ uploaded_file' = [uploaded_file EXCEPT ![s] = f]
  /\ begun' = [begun EXCEPT ![s] = Len(history)]
  /\ calls' = [calls EXCEPT ![s] = <<>>]
  /\ chunks' = [chunks EXCEPT ![s] = <<>>]
  /\ new_doc_id' = [new_doc_id EXCEPT ![s] = None]
  /\ batch_index' = [batch_index EXCEPT ![s] = 0]
  /\ embeddings' = [embeddings EXCEPT ![s] = <<>>]
  /\ total_processed_chunks' = [total_processed_chunks EXCEPT ![s] = 0]
  /\ pc' = [pc EXCEPT ![s] = "process"]
  /\ status' = [status EXCEPT ![s] = "running"]
  /\ UNCHANGED <<points, uuid_ctr, cache_file, processed_files_cache, history, ret>>
  /\ UNCHANGED <<collection_exists, vectorstore>>

\* The log when the batch loop is left: "Embedding complete!" is shown when
\* a progress bar is given and every chunk was processed.
LoopExit(s, log, total) ==
  IF HasProgressBar(s) /\ total = Len(chunks[s])
  THEN Append(log, Call("progress_complete", 0, TRUE, <<>>))
  ELSE log

\* The object a handler passes to process_document.
FileObject(fl, f) ==
  IF fl = "page" THEN StreamlitUploadedFile(f) ELSE FastApiUploadFile(f)

\* (mutant) the doc_id is a fixed value instead of a new uuid
ProcessDocument_FixedDocId(s) ==
  /\ pc[s] = "process"
  /\ LET doc_id == Uuid(0)
         doc_data == process_document(FileObject(flow[s], uploaded_file[s]), doc_id)
     IN /\ uuid_ctr' = uuid_ctr + 1
        /\ new_doc_id' = [new_doc_id EXCEPT ![s] = doc_data.doc_id]
        /\ chunks' = [chunks EXCEPT ![s] = doc_data.chunks]
        /\ pc' = [pc EXCEPT ![s] =
                    IF doc_data.chunks = <<>> THEN "returned" ELSE "embed"]
  /\ UNCHANGED <<points, cache_file, flow, uploaded_file, processed_files_cache,
                 batch_index, embeddings, total_processed_chunks, calls, status,
                 begun, history, uploads, ret>>
  /\ UNCHANGED <<collection_exists, vectorstore>>

\* doc_data = process_document(uploaded_file), then the entry of
\* embed_and_store_chunks: it returns at once when there are no chunks.
ProcessDocument(s) ==
  /\ pc[s] = "process"
  /\ LET doc_id == Uuid(uuid_ctr + 1)
         doc_data == process_document(FileObject(flow[s], uploaded_file[s]), doc_id)
     IN /\ uuid_ctr' = uuid_ctr + 1
        /\ new_doc_id' = [new_doc_id EXCEPT ![s] = doc_data.doc_id]
        /\ chunks' = [chunks EXCEPT ![s] = doc_data.chunks]
        /\ pc' = [pc EXCEPT ![s] =
                    IF doc_data.chunks = <<>> THEN "returned" ELSE "embed"]
  /\ UNCHANGED <<points, cache_file, flow, uploaded_file, processed_files_cache,
                 batch_index, embeddings, total_processed_chunks, calls, status,
                 begun, history, uploads, ret>>
  /\ UNCHANGED <<collection_exists, vectorstore>>

\* (mutant) the pair is recorded and saved although process_document raised
ProcessDocumentRaises_Records(s) ==
  /\ pc[s] = "process"
  /\ uuid_ctr' = uuid_ctr + 1
  /\ pc' = [pc EXCEPT ![s] = "done"]
  /\ status' = [status EXCEPT ![s] = "error"]
  /\ history' = Append(history, Finished(s, flow[s], uploaded_file[s], "error", None, <<>>, begun[s]))
  /\ LET cache == DictSet(processed_files_cache[s],
                          Hash(uploaded_file[s].bytes), Uuid(uuid_ctr + 1))
     IN /\ processed_files_cache' = [processed_files_cache EXCEPT ![s] = cache]
        /\ cache_file' = save_cache(cache_file, cache)
  /\ UNCHANGED <<points, flow, uploaded_file, new_doc_id, chunks, batch_index,
                 embeddings, total_processed_chunks, calls, begun, uploads, ret>>
  /\ UNCHANGED <<collection_exists, vectorstore>>

\* process_document raises (pymupdf cannot open the bytes): the page's
\* except branch reports the error; /upload answers with an error.
ProcessDocumentRaises(s) ==
  /\ pc[s] = "process"
  /\ uuid_ctr' = uuid_ctr + 1
  /\ pc' = [pc EXCEPT ![s] = "done"]
  /\ status' = [status EXCEPT ![s] = "error"]
  /\ history' = Append(history, Finished(s, flow[s], uploaded_file[s], "error", None, <<>>, begun[s]))
  /\ UNCHANGED <<points, cache_file, flow, uploaded_file, processed_files_cache,
                 new_doc_id, chunks, batch_index, embeddings,
                 total_processed_chunks, calls, begun, uploads, ret>>
  /\ UNCHANGED <<collection_exists, vectorstore>>

\* (mutant) the pass ends without the progress report
NextBatch_NoProgress(s, log, total) ==
  LET current_batch_num == batch_index[s] + 1
      more == current_batch_num < NumBatches(Len(chunks[s]))
  IN /\ batch_index' = [batch_index EXCEPT ![s] = current_batch_num]
     /\ total_processed_chunks' = [total_processed_chunks EXCEPT ![s] = total]
     /\ pc' = [pc EXCEPT ![s] = IF more THEN "embed" ELSE "returned"]
     /\ calls' = [calls EXCEPT ![s] = log]

\* The end of one pass of the batch loop: the progress report, then the
\* next batch or the end of the loop.
NextBatch(s, log, total) ==
  LET current_batch_num == batch_index[s] + 1
      reported == IF HasProgressBar(s)
                  THEN Append(log, Call("progress", current_batch_num, TRUE, <<>>))
                  ELSE log
      more == current_batch_num < NumBatches(Len(chunks[s]))
  IN /\ batch_index' = [batch_index EXCEPT ![s] = current_batch_num]
     /\ total_processed_chunks' = [total_processed_chunks EXCEPT ![s] = total]
     /\ pc' = [pc EXCEPT ![s] = IF more THEN "embed" ELSE "returned"]
     /\ calls' = [calls EXCEPT ![s] =
                    IF more THEN reported ELSE LoopExit(s, reported, total)]

\* (mutant) the except branch goes on with the next batch instead of break
BatchError_Continue(s, log) ==
  NextBatch(s, log, total_processed_chunks[s])

\* The except branch of the batch loop: the error is shown on the progress
\* bar when there is one, and break leaves the loop.
BatchError(s, log) ==
  /\ pc' = [pc EXCEPT ![s] = "returned"]
  /\ calls' = [calls EXCEPT ![s] =
       IF HasProgressBar(s)
       THEN Append(log, Call("progress_error", batch_index[s] + 1, TRUE, <<>>))
       ELSE log]
  /\ UNCHANGED <<batch_index, total_processed_chunks>>

\* embeddings = self.embed_texts_openai(batch_texts) returns.
EmbedBatch(s) ==
  /\ pc[s] = "embed"
  /\ LET batch_chunks_metadata == BatchOf(chunks[s], batch_index[s])
         batch_texts == BatchTexts(batch_chunks_metadata)
         result == embed_texts_openai(batch_texts)
         log == Append(calls[s], Call("embed", batch_index[s] + 1, TRUE, <<>>))
     IN IF result # <<>>
        THEN /\ embeddings' = [embeddings EXCEPT ![s] = result]
             /\ pc' = [pc EXCEPT ![s] = "upsert"]
             /\ calls' = [calls EXCEPT ![s] = log]
             /\ UNCHANGED <<batch_index, total_processed_chunks>>
        ELSE /\ embeddings' = [embeddings EXCEPT ![s] = <<>>]
             /\ NextBatch(s, log, total_processed_chunks[s])
  /\ UNCHANGED <<points, uuid_ctr, cache_file, flow, uploaded_file,
                 processed_files_cache, new_doc_id, chunks, status, begun,
                 history, uploads, ret>>
  /\ UNCHANGED <<collection_exists, vectorstore>>

\* self.embed_texts_openai(batch_texts) raises.
EmbedRaises(s) ==
  /\ pc[s] = "embed"
  /\ BatchError(s, Append(calls[s], Call("embed", batch_index[s] + 1, FALSE, <<>>)))
  /\ UNCHANGED <<points, uuid_ctr, cache_file, flow, uploaded_file,
                 processed_files_cache, new_doc_id, chunks, embeddings, status,
                 begun, history, uploads, ret>>
  /\ UNCHANGED <<collection_exists, vectorstore>>

PointIds(pts) == [k \in 1..Len(pts) |-> pts[k].id]

\* self.upsert(embeddings, batch_chunks_metadata) returns.
UpsertBatch(s) ==
  /\ pc[s] = "upsert"
  /\ LET batch_chunks_metadata == BatchOf(chunks[s], batch_index[s])
         stored == upsert(points, uuid_ctr, embeddings[s], batch_chunks_metadata)
         new_ids == SubSeq(PointIds(stored), Len(points) + 1, Len(stored))
         log == Append(calls[s], Call("upsert", batch_index[s] + 1, TRUE, new_ids))
     IN /\ points' = stored
        /\ uuid_ctr' = uuid_ctr + Len(new_ids)
        /\ NextBatch(s, log,
             total_processed_chunks[s] + Len(BatchTexts(batch_chunks_metadata)))
  /\ embeddings' = [embeddings EXCEPT ![s] = <<>>]
  /\ UNCHANGED <<cache_file, flow, uploaded_file, processed_files_cache,
                 new_doc_id, chunks, status, begun, history, uploads, ret>>
  /\ UNCHANGED <<collection_exists, vectorstore>>

\* self.client.upsert raises: nothing of the batch is stored.
UpsertRaises(s) ==
  /\ pc[s] = "upsert"
  /\ uuid_ctr' = uuid_ctr + Len(embeddings[s])
  /\ BatchError(s, Append(calls[s], Call("upsert", batch_index[s] + 1, FALSE, <<>>)))
  /\ embeddings' = [embeddings EXCEPT ![s] = <<>>]
  /\ UNCHANGED <<points, cache_file, flow, uploaded_file, processed_files_cache,
                 new_doc_id, chunks, status, begun, history, uploads, ret>>
  /\ UNCHANGED <<collection_exists, vectorstore>>

\* show_add_documents_page after embed_and_store_chunks returned:
\* processed_files_cache[current_file_hash] = new_doc_id; save_cache(...).
RecordAndSave(s) ==
  /\ pc[s] = "returned"
  /\ flow[s] = "page"
  /\ LET current_file_hash == Hash(uploaded_file[s].bytes)
         cache == DictSet(processed_files_cache[s], current_file_hash, new_doc_id[s])
     IN /\ processed_files_cache' = [processed_files_cache EXCEPT ![s] = cache]
        /\ cache_file' = save_cache(cache_file, cache)
  /\ pc' = [pc EXCEPT ![s] = "done"]
  /\ status' = [status EXCEPT ![s] = "success"]
  /\ history' = Append(history,
       Finished(s, flow[s], uploaded_file[s], "success", new_doc_id[s], calls[s],
                begun[s]))
  /\ UNCHANGED <<points, uuid_ctr, flow, uploaded_file, new_doc_id, chunks,
                 batch_index, embeddings, total_processed_chunks, calls, begun,
                 uploads, ret>>
  /\ UNCHANGED <<collection_exists, vectorstore>>

\* upload_document after embed_and_store_chunks returned: the response
\* {"num_chunks": ..., "doc_id": ...}.
ApiReturn(s) ==
  /\ pc[s] = "returned"
  /\ flow[s] = "api"
  /\ pc' = [pc EXCEPT ![s] = "done"]
  /\ status' = [status EXCEPT ![s] = "success"]
  /\ history' = Append(history,
       Finished(s, flow[s], uploaded_file[s], "success", new_doc_id[s], calls[s],
                begun[s]))
  /\ UNCHANGED <<points, uuid_ctr, cache_file, flow, uploaded_file,
                 processed_files_cache, new_doc_id, chunks, batch_index,
                 embeddings, total_processed_chunks, calls, begun, uploads, ret>>
  /\ UNCHANGED <<collection_exists, vectorstore>>

\* Uploads made one after the other, on the page or through /upload.
Next ==
  \/ \E f \in UploadedFiles : PageUpload("s1", f)
  \/ \E f \in UploadedFiles : ApiUpload("s1", f)
  \/ ProcessDocument("s1")
  \/ ProcessDocumentRaises("s1")
  \/ EmbedBatch("s1")
  \/ EmbedRaises("s1")
  \/ UpsertBatch("s1")
  \/ UpsertRaises("s1")
  \/ RecordAndSave("s1")
  \/ ApiReturn("s1")

Spec == Init /\ [][Next]_vars

\* Two sessions at once, each making one upload that no call fails: their
\* steps interleave in every order. The sessions share the collection and
\* the cache file.
NextConcurrent ==
  \/ \E s \in Sessions, f \in UploadedFiles : pc[s] = "idle" /\ PageUpload(s, f)
  \/ \E s \in Sessions, f \in UploadedFiles : pc[s] = "idle" /\ ApiUpload(s, f)
  \/ \E s \in Sessions : ProcessDocument(s)
  \/ \E s \in Sessions : EmbedBatch(s)
  \/ \E s \in Sessions : UpsertBatch(s)
  \/ \E s \in Sessions : RecordAndSave(s)
  \/ \E s \in Sessions : ApiReturn(s)

SpecConcurrent == Init /\ [][NextConcurrent]_vars

(* ------------- app/vectorstore.py: search, scroll, delete -------------- *)

Range(seq) == {seq[k] : k \in DOMAIN seq}

\* models.FieldCondition(key=..., match=models.MatchValue(value=...))
FieldCondition(key, value) == [key |-> key, match |-> value]

DocIdConditions(doc_ids) ==
  [k \in 1..Len(doc_ids) |-> FieldCondition("doc_id", doc_ids[k])]

\* query_filter=None
NoFilter == [present |-> FALSE, should |-> <<>>, must |-> <<>>]

\* (mutant) the conditions are put under must: all of them have to match
SearchFilter_Must(filter_doc_ids) ==
  IF filter_doc_ids # <<>>
  THEN [present |-> TRUE, should |-> <<>>, must |-> DocIdConditions(filter_doc_ids)]
  ELSE NoFilter

\* search: search_filter, a should-filter over the ids or None.
SearchFilter(filter_doc_ids) ==
  IF filter_doc_ids # <<>>
  THEN [present |-> TRUE, should |-> DocIdConditions(filter_doc_ids), must |-> <<>>]
  ELSE NoFilter

\* (mutant) the delete filter uses must instead of should
DeleteFilter_Must(doc_ids_to_delete) ==
  [present |-> TRUE, should |-> <<>>, must |-> DocIdConditions(doc_ids_to_delete)]

\* delete_documents_by_ids: qdrant_filter
DeleteFilter(doc_ids_to_delete) ==
  [present |-> TRUE, should |-> DocIdConditions(doc_ids_to_delete), must |-> <<>>]

ConditionHolds(payload, cond) ==
  cond.key \in DOMAIN payload /\ payload[cond.key] = cond.match

\* Qdrant's filter: every must condition holds, and one of the should
\* conditions when there are any.
Matches(payload, filter) ==
  \/ ~filter.present
  \/ /\ \A k \in DOMAIN filter.must : ConditionHolds(payload, filter.must[k])
     /\ \/ filter.should = <<>>
        \/ \E k \in DOMAIN filter.should : ConditionHolds(payload, filter.should[k])

\* The collection's similarity of two vectors (cosine in the program): here,
\* the number of words the two embedded texts share.
Score(query_vector, vector) ==
  Cardinality(Range(query_vector.embedding_of) \cap Range(vector.embedding_of))

\* The best `limit` of the candidate positions, best first; equal scores in
\* insertion order.
RECURSIVE TopK(_, _, _, _)
TopK(pts, query_vector, cands, limit) ==
  IF limit = 0 \/ cands = {} THEN <<>>
  ELSE LET best == CHOOSE k \in cands : \A j \in cands :
                     \/ Score(query_vector, pts[k].vector) > Score(query_vector, pts[j].vector)
                     \/ /\ Score(query_vector, pts[k].vector) = Score(query_vector, pts[j].vector)
                        /\ k <= j
       IN <<pts[best]>> \o TopK(pts, query_vector, cands \ {best}, limit - 1)

\* self.client.search(query_vector=..., query_filter=..., limit=...)
ClientSearch(pts, query_vector, query_filter, limit) ==
  TopK(pts, query_vector,
       {k \in DOMAIN pts : Matches(pts[k].payload, query_filter)}, limit)

\* search(query_vector, top_k, filter_doc_ids): the payloads of the hits.
search(pts, query_vector, top_k, filter_doc_ids) ==
  LET search_filter == SearchFilter(filter_doc_ids)
      results == ClientSearch(pts, query_vector, search_filter, top_k)
  IN [k \in 1..Len(results) |-> results[k].payload]

\* embed_and_search(query, top_k, filter_doc_ids)
embed_and_search(pts, query, top_k, filter_doc_ids) ==
  LET query_vector == embed_texts_openai(<<query>>)
  IN IF query_vector = <<>> THEN <<>>
     ELSE search(pts, query_vector[1], top_k, filter_doc_ids)

\* Position in pts of the point whose id is offset (the first, for None).
OffsetIndex(pts, offset) ==
  IF offset = None THEN 1
  ELSE CHOOSE k \in DOMAIN pts : pts[k].id = offset

\* self.client.scroll(limit=..., offset=...): one page, and the id the next
\* page starts at (None after the last page).
ClientScroll(pts, limit, offset) ==
  IF pts = <<>> THEN [results |-> <<>>, next_offset |-> None]
  ELSE LET from == OffsetIndex(pts, offset)
           to == Min(from + limit - 1, Len(pts))
       IN [results |-> SubSeq(pts, from, to),
           next_offset |-> IF to < Len(pts) THEN pts[to + 1].id ELSE None]

PageDocIds(results) ==
  {results[k].payload.doc_id :
     k \in {j \in DOMAIN results : "doc_id" \in DOMAIN results[j].payload}}

\* (mutant) the loop tests next_offset before it reads the page
RECURSIVE ScrollLoop_BreakFirst(_, _, _)
ScrollLoop_BreakFirst(pts, unique_doc_ids, next_offset) ==
  LET page == ClientScroll(pts, ScrollLimit, next_offset)
  IN IF page.next_offset = None THEN unique_doc_ids
     ELSE ScrollLoop_BreakFirst(pts, unique_doc_ids \cup PageDocIds(page.results),
                                page.next_offset)

\* get_indexed_document_ids: the while True loop, from one call of scroll on.
RECURSIVE ScrollLoop(_, _, _)
ScrollLoop(pts, unique_doc_ids, next_offset) ==
  LET page == ClientScroll(pts, ScrollLimit, next_offset)
      seen == unique_doc_ids \cup PageDocIds(page.results)
  IN IF page.next_offset = None THEN seen
     ELSE ScrollLoop(pts, seen, page.next_offset)

\* get_indexed_document_ids(): list(unique_doc_ids)
get_indexed_document_ids(pts) == ListOf(ScrollLoop(pts, {}, None))

\* self.client.delete(points_selector=qdrant_filter, wait=True), completed.
ClientDelete(pts, points_selector) ==
  SelectSeq(pts, LAMBDA pt : ~Matches(pt.payload, points_selector))

(* ---------------------- operations on the store ------------------------- *)

DocIdsInStore == {points[k].payload.doc_id : k \in DOMAIN points}

\* An id no stored document has.
UnknownDocId == Uuid(0)

\* The id lists a caller passes: up to two different ids.
DocIdLists(ids) ==
  {<<>>} \cup {<<a>> : a \in ids}
         \cup ({<<a, b>> : a \in ids, b \in ids} \ {<<a, a>> : a \in ids})

\* Questions asked, as sequences of words.
Questions == {<<"short">>, <<"long", "#2">>}

\* A call of embed_and_search(query, top_k, filter_doc_ids) that returns.
EmbedAndSearch(query, top_k, filter_doc_ids) ==
  /\ ret = NoRet
  /\ ret' = [op |-> "embed_and_search", query |-> query, top_k |-> top_k,
             filter_doc_ids |-> filter_doc_ids,
             results |-> embed_and_search(points, query, top_k, filter_doc_ids)]
  /\ UNCHANGED <<points, uuid_ctr, cache_file, ingest_vars>>
  /\ UNCHANGED <<collection_exists, vectorstore>>

\* A call of get_indexed_document_ids() that returns.
GetIndexedDocumentIds ==
  /\ ret = NoRet
  /\ ret' = [op |-> "get_indexed_document_ids",
             doc_ids |-> get_indexed_document_ids(points)]
  /\ UNCHANGED <<points, uuid_ctr, cache_file, ingest_vars>>
  /\ UNCHANGED <<collection_exists, vectorstore>>

\* delete_documents_by_ids(doc_ids_to_delete). outcome is what client.delete
\* does: "completed", "acknowledged" (the deletion is accepted and may be
\* applied or not yet) or "raised"; the except branch only prints. Every
\* path ends without a return statement: the caller gets None.
DeleteDocumentsByIds(doc_ids_to_delete, outcome, applied) ==
  /\ ret = NoRet
  /\ IF doc_ids_to_delete = <<>>
     THEN /\ outcome = "completed" /\ applied
          /\ ret' = [op |-> "delete_documents_by_ids",
                     doc_ids_to_delete |-> doc_ids_to_delete,
                     before |-> points, delete_calls |-> 0,
                     delete_status |-> "no call", raised |-> FALSE,
                     returned |-> None]
          /\ UNCHANGED points
     ELSE /\ outcome = "completed" => applied
          /\ outcome = "raised" => ~applied
          /\ points' = IF applied
                       THEN ClientDelete(points, DeleteFilter(doc_ids_to_delete))
                       ELSE points
          /\ ret' = [op |-> "delete_documents_by_ids",
                     doc_ids_to_delete |-> doc_ids_to_delete,
                     before |-> points, delete_calls |-> 1,
                     delete_status |-> outcome, raised |-> FALSE,
                     returned |-> None]
  /\ UNCHANGED <<uuid_ctr, cache_file, ingest_vars>>
  /\ UNCHANGED <<collection_exists, vectorstore>>

(* ------------- app/retriever.py and the pages that ask ------------------ *)

\* What a QdrantVectorStore object has: the attributes __init__ sets and
\* the methods of the class. (The DummyVectorStore of tests/test_retriever.py
\* has embed_and_search only.)
QdrantVectorStoreAttrs ==
  {"qdrant_url", "qdrant_api_key", "collection_name", "openai_api_key",
   "client", "openai_client", "_init_collection", "embed_texts_openai",
   "upsert", "search", "embed_and_store_chunks", "embed_and_search",
   "get_indexed_document_ids", "delete_documents_by_ids"}

\* def get_relevant_chunks(question, vectorstore, top_k=5)
RetrieverParams == {"question", "vectorstore", "top_k"}

\* top_k: int = 5
DefaultTopK == 5

\* "query: " + question
QueryText(question) == <<"query: ">> \o question

\* get_relevant_chunks(question, vectorstore, **keywords) on a
\* QdrantVectorStore; keywords are the names of the keyword arguments.
\* A keyword the function does not have is a TypeError at the call; reading
\* vectorstore.model, which the store does not have, is an AttributeError.
get_relevant_chunks(question, keywords) ==
  CASE ~(keywords \subseteq RetrieverParams) ->
         [raised |-> "TypeError", query |-> None, results |-> <<>>,
          embed_and_search_calls |-> <<>>]
    [] keywords \subseteq RetrieverParams /\ "model" \notin QdrantVectorStoreAttrs ->
         [raised |-> "AttributeError", query |-> QueryText(question),
          results |-> <<>>, embed_and_search_calls |-> <<>>]

\* "\n\n---\n\n".join([chunk["text"] for chunk in results])
ContextOf(results) == [k \in 1..Len(results) |-> results[k].text]

\* What a caller does with the outcome r of get_relevant_chunks:
\* guarded callers call generate_answer only when results is not empty.
Asked(op, question, filter_doc_ids, r, guarded) ==
  [op |-> op, question |-> question, filter_doc_ids |-> filter_doc_ids,
   query |-> r.query, raised |-> r.raised, results |-> r.results,
   embed_and_search_calls |-> r.embed_and_search_calls,
   generate_answer_calls |->
     IF r.raised = "none" /\ (~guarded \/ r.results # <<>>)
     THEN <<[question |-> question, context |-> ContextOf(r.results)]>>
     ELSE <<>>,
   shown |-> IF r.raised # "none" THEN "error"
             ELSE IF guarded /\ r.results = <<>> THEN "warning" ELSE "answer"]

\* POST /ask: ask_question(question); an exception is not caught here.
AskQuestion(question) ==
  /\ ret = NoRet
  /\ ret' = Asked("ask_question", question, None,
                  get_relevant_chunks(question, {}), FALSE)
  /\ UNCHANGED <<points, uuid_ctr, cache_file, ingest_vars>>
  /\ UNCHANGED <<collection_exists, vectorstore>>

\* show_converse_page with a question typed in.
ConverseAsk(question) ==
  /\ ret = NoRet
  /\ ret' = Asked("show_converse_page", question, None,
                  get_relevant_chunks(question, {}), TRUE)
  /\ UNCHANGED <<points, uuid_ctr, cache_file, ingest_vars>>
  /\ UNCHANGED <<collection_exists, vectorstore>>

\* The query page of frontend.py with a question and a selection: the
\* question box is enabled only with documents available and selected.
QueryPageAsk(question, selected_doc_ids) ==
  /\ ret = NoRet
  /\ get_indexed_document_ids(points) # <<>>
  /\ selected_doc_ids # <<>>
  /\ Range(selected_doc_ids) \subseteq Range(get_indexed_document_ids(points))
  /\ ret' = Asked("query_page", question, selected_doc_ids,
                  get_relevant_chunks(question, {"filter_doc_ids"}), TRUE)
  /\ UNCHANGED <<points, uuid_ctr, cache_file, ingest_vars>>
  /\ UNCHANGED <<collection_exists, vectorstore>>

\* The caller has taken the result of the last operation.
Respond ==
  /\ ret # NoRet
  /\ ret' = NoRet
  /\ UNCHANGED <<points, uuid_ctr, cache_file, ingest_vars>>
  /\ UNCHANGED <<collection_exists, vectorstore>>

\* Documents stored through /upload, and the store's operations on them.
NextQuery ==
  \/ \E f \in UploadedFiles : ret = NoRet /\ ApiUpload("s1", f)
  \/ ret = NoRet /\ ProcessDocument("s1")
  \/ ret = NoRet /\ EmbedBatch("s1")
  \/ ret = NoRet /\ UpsertBatch("s1")
  \/ ret = NoRet /\ ApiReturn("s1")
  \/ \E query \in Questions, top_k \in 1..MaxTopK,
        filter_doc_ids \in DocIdLists(DocIdsInStore \cup {UnknownDocId}) :
       EmbedAndSearch(query, top_k, filter_doc_ids)
  \/ GetIndexedDocumentIds
  \/ \E doc_ids_to_delete \in DocIdLists(DocIdsInStore \cup {UnknownDocId}),
        outcome \in {"completed", "acknowledged", "raised"}, applied \in BOOLEAN :
       DeleteDocumentsByIds(doc_ids_to_delete, outcome, applied)
  \/ \E question \in Questions : AskQuestion(question)
  \/ \E question \in Questions : ConverseAsk(question)
  \/ \E question \in Questions, selected_doc_ids \in DocIdLists(DocIdsInStore) :
       QueryPageAsk(question, selected_doc_ids)
  \/ Respond

SpecQuery == Init /\ [][NextQuery]_vars

(* ------------------- the cache file, read and written ------------------ *)

\* Content hashes and document ids a cache maps.
CacheKeys == {Hash(bytes) : bytes \in Contents}

CacheDocIds == {Uuid(n) : n \in 1..MaxDocIds}

\* The dicts from content hashes to document ids.
CacheMappings ==
  UNION {[keys -> CacheDocIds] : keys \in SUBSET CacheKeys}

\* Texts a cache file can hold that were not written by save_cache: "not
\* json", nothing, an object cut short, an object followed by more text,
\* and bytes that are no text.
ForeignTexts ==
  { <<Word("not"), Word("json")>>,
    <<>>,
    <<LBrace, Str(Hash("long")), Colon>>,
    <<LBrace, RBrace, RBrace>>,
    <<BadBytes, LBrace, RBrace>> }

\* save_cache(cache_data)
SaveCache(cache_data) ==
  /\ cache_file' = save_cache(cache_file, cache_data)
  /\ ret' = [op |-> "save_cache", cache_data |-> cache_data]
  /\ UNCHANGED <<points, uuid_ctr, ingest_vars>>
  /\ UNCHANGED <<collection_exists, vectorstore>>

\* load_cache(); after_save holds the dict of the save_cache call that came
\* right before, if one did.
LoadCache ==
  /\ ret.op # "load_cache"
  /\ LET loaded == load_cache(cache_file)
     IN ret' = [op |-> "load_cache", file |-> cache_file,
                after_save |-> IF ret.op = "save_cache"
                               THEN <<ret.cache_data>> ELSE <<>>,
                raised |-> loaded.raised, value |-> loaded.value]
  /\ UNCHANGED <<points, uuid_ctr, cache_file, ingest_vars>>
  /\ UNCHANGED <<collection_exists, vectorstore>>

\* Something else writes the file (tests/test_page_cache.py: write_text).
WriteText(text) ==
  /\ cache_file' = [exists |-> TRUE, text |-> text]
  /\ ret' = [op |-> "write_text"]
  /\ UNCHANGED <<points, uuid_ctr, ingest_vars>>
  /\ UNCHANGED <<collection_exists, vectorstore>>

\* The file is removed.
RemoveFile ==
  /\ cache_file.exists
  /\ cache_file' = NoFile
  /\ ret' = [op |-> "remove"]
  /\ UNCHANGED <<points, uuid_ctr, ingest_vars>>
  /\ UNCHANGED <<collection_exists, vectorstore>>

NextCache ==
  \/ \E cache_data \in CacheMappings : SaveCache(cache_data)
  \/ LoadCache
  \/ \E text \in ForeignTexts : WriteText(text)
  \/ RemoveFile

SpecCache == Init /\ [][NextCache]_vars

(* ------------- the store object: construction and upsert ---------------- *)

\* Environments a process is started with: every setting, one missing, none.
Envs == {EnvNames} \cup {EnvNames \ {name} : name \in EnvNames} \cup {{}}

\* QdrantVectorStore() up to its call of _init_collection: the settings
\* are read, two of them are tested, the two clients are built.
Construct(s, env) ==
  /\ vectorstore[s].pc \in {"none", "failed", "ready"}
  /\ vectorstore' = [vectorstore EXCEPT ![s] =
       IF "OPENAI_API_KEY" \notin env
       THEN StoreObject("failed", env, ValueErrorNotSet("OPENAI_API_KEY"), <<>>)
       ELSE IF "QDRANT_URL" \notin env
       THEN StoreObject("failed", env, ValueErrorNotSet("QDRANT_URL"), <<>>)
       ELSE StoreObject("get_collections", env, NotRaised, <<>>)]
  /\ UNCHANGED <<points, uuid_ctr, cache_file, ingest_vars, ret, collection_exists>>

\* _init_collection: self.client.get_collections() and the test of the
\* names. Qdrant Cloud refuses a request that carries no api key.
GetCollections(s) ==
  /\ vectorstore[s].pc = "get_collections"
  /\ LET obj == vectorstore[s]
         made == Append(obj.client_calls, "get_collections")
     IN vectorstore' = [vectorstore EXCEPT ![s] =
          IF "QDRANT_API_KEY" \notin obj.env
          THEN StoreObject("failed", obj.env, UnexpectedResponse, made)
          ELSE StoreObject(AfterGetCollections(obj.env, collection_exists),
                           obj.env, NotRaised, made)]
  /\ UNCHANGED <<points, uuid_ctr, cache_file, ingest_vars, ret, collection_exists>>

\* _init_collection: self.client.recreate_collection(...), which drops the
\* collection of that name if there is one and creates it empty. Without
\* QDRANT_COLLECTION the name is None and the call is refused.
RecreateCollection(s) ==
  /\ vectorstore[s].pc = "recreate_collection"
  /\ LET obj == vectorstore[s]
         made == Append(obj.client_calls, "recreate_collection")
     IN IF "QDRANT_COLLECTION" \notin obj.env
        THEN /\ vectorstore' = [vectorstore EXCEPT ![s] =
                  StoreObject("failed", obj.env, UnexpectedResponse, made)]
             /\ UNCHANGED <<points, collection_exists>>
        ELSE /\ vectorstore' = [vectorstore EXCEPT ![s] =
                  StoreObject("ready", obj.env, NotRaised, made)]
             /\ points' = <<>>
             /\ collection_exists' = TRUE
  /\ ret' = [op |-> "recreate_collection"]
  /\ UNCHANGED <<uuid_ctr, cache_file, ingest_vars>>

\* The chunks of a document, as process_document gives them.
SampleChunks ==
  process_document(PathInput([name |-> "a.pdf", bytes |-> "long"]),
                   UnknownDocId).chunks

\* Arguments of upsert: a batch with its embeddings, its first chunk alone,
\* no embeddings, and fewer embeddings than chunks.
UpsertArgs ==
  LET batches == {BatchOf(SampleChunks, 0), BatchOf(SampleChunks, 1),
                  SubSeq(SampleChunks, 1, 1)}
  IN {[embeddings |-> embed_texts_openai(BatchTexts(b)), metadata_list |-> b] :
        b \in batches}
     \cup {[embeddings |-> <<>>, metadata_list |-> BatchOf(SampleChunks, 0)],
           [embeddings |-> embed_texts_openai(SubSeq(BatchTexts(SampleChunks), 1, 1)),
            metadata_list |-> BatchOf(SampleChunks, 0)]}

\* upsert(embeddings, metadata_list) on a built store object, returning.
Upsert(s, args) ==
  /\ vectorstore[s].pc = "ready"
  /\ collection_exists
  /\ Len(points) + Len(args.embeddings) <= MaxStored
  /\ points' = upsert(points, uuid_ctr, args.embeddings, args.metadata_list)
  /\ uuid_ctr' = uuid_ctr + Min(Len(args.embeddings), Len(args.metadata_list))
  /\ ret' = [op |-> "upsert", before |-> points,
             embeddings |-> args.embeddings,
             metadata_list |-> args.metadata_list]
  /\ UNCHANGED <<cache_file, ingest_vars, collection_exists, vectorstore>>

\* No store object has been built; the collection may exist or not.
InitStore ==
  /\ InitApp
  /\ collection_exists \in BOOLEAN
  /\ vectorstore = [s \in Sessions |-> NoStore]

\* Store objects built by two processes, and their upserts.
NextStore ==
  \/ \E s \in Sessions, env \in Envs : Construct(s, env)
  \/ \E s \in Sessions : GetCollections(s)
  \/ \E s \in Sessions : RecreateCollection(s)
  \/ \E s \in Sessions, args \in UpsertArgs : Upsert(s, args)

SpecStore == InitStore /\ [][NextStore]_vars

(* ------------------------- claims: ingestion ---------------------------- *)

RemoteCall(c) == c.op \in {"embed", "upsert"}

FailedCall(log) == \E k \in DOMAIN log : RemoteCall(log[k]) /\ ~log[k].ok

StoredIds == {points[k].id : k \in DOMAIN points}

\* C1 (as claimed): on the page, the pair (content_hash, document_id) of an
\* upload is in the cache file only if no embedding or upsert call of that
\* upload failed.
C1_CacheOnlyAfterFullSuccess ==
  \A s \in Sessions :
    (pc[s] = "done" /\ flow[s] = "page" /\ FailedCall(calls[s]))
      => LET h == Hash(uploaded_file[s].bytes)
             cache == load_cache(cache_file).value
         IN ~(h \in DOMAIN cache /\ cache[h] = new_doc_id[s])

DocIdsOfContent(bytes) ==
  {points[k].payload.doc_id :
     k \in {j \in DOMAIN points : bytes \in Range(points[j].payload.text)}}

Completed(h) == h.status \in {"success", "cache_hit"}

\* C2 (as claimed): of two completed uploads of the same bytes, one begun
\* after the other finished, the second makes no embedding call and no
\* upsert, both resolve to the same document id, and the store holds the
\* chunks of that content under one document id only.
C2_SecondUploadReusesFirst ==
  \A j, k \in DOMAIN history :
    (j < k /\ history[k].begun >= j /\ history[j].hash = history[k].hash
       /\ Completed(history[j]) /\ Completed(history[k]))
      => /\ history[k].embed_calls = 0
         /\ history[k].upsert_calls = 0
         /\ history[k].doc_id = history[j].doc_id
         /\ Cardinality(DocIdsOfContent(history[k].hash[2])) <= 1

\* C3: once an embedding or upsert call of batch k raised, the call makes
\* no later embedding or upsert call (none for a batch after k), and when it
\* has returned every point upserted by the batches before k is in the store.
C3_FailFastKeepsEarlierBatches ==
  \A s \in Sessions :
    \A k \in DOMAIN calls[s] :
      (RemoteCall(calls[s][k]) /\ ~calls[s][k].ok)
        => /\ \A j \in DOMAIN calls[s] :
                RemoteCall(calls[s][j]) =>
                  (j <= k /\ calls[s][j].batch <= calls[s][k].batch)
           /\ pc[s] \in {"returned", "done"}
           /\ \A j \in 1..(k - 1) :
                /\ calls[s][j].op = "upsert" =>
                     /\ Len(calls[s][j].ids) =
                          Len(BatchOf(chunks[s], calls[s][j].batch - 1))
                     /\ \A n \in DOMAIN calls[s][j].ids :
                          calls[s][j].ids[n] \in StoredIds

\* C3 witness: a call that failed in its second batch of three has returned,
\* with the first batch stored.
C3_Witness ==
  \E s \in Sessions :
    /\ pc[s] = "returned"
    /\ NumBatches(Len(chunks[s])) > 2
    /\ \E k \in DOMAIN calls[s] :
         RemoteCall(calls[s][k]) /\ ~calls[s][k].ok /\ calls[s][k].batch = 2
    /\ Len(points) >= batch_size

\* Position of the first call of the log that is op on batch n (0: none).
FirstCall(log, op, n) ==
  LET at == {k \in DOMAIN log : log[k].op = op /\ log[k].batch = n /\ log[k].ok}
  IN IF at = {} THEN 0 ELSE CHOOSE k \in at : \A j \in at : k <= j

\* C4 (as claimed): the embedding call of batch N > 1 comes after batch N-1
\* was embedded, then upserted, then its progress reported.
C4_AfterEmbedUpsertProgress ==
  \A s \in Sessions :
    \A k \in DOMAIN calls[s] :
      (calls[s][k].op = "embed" /\ calls[s][k].batch > 1)
        => LET n == calls[s][k].batch - 1
               e == FirstCall(calls[s], "embed", n)
               u == FirstCall(calls[s], "upsert", n)
               p == FirstCall(calls[s], "progress", n)
           IN 0 < e /\ e < u /\ u < p /\ p < k

PointsOfDoc(doc_id) ==
  SelectSeq(points, LAMBDA pt : pt.payload.doc_id = doc_id)

\* C4 (amended): the embedding call of batch N > 1 comes after batch N-1 was
\* embedded, then upserted, then (when a progress bar was passed) its progress
\* reported; and the chunks of a document are stored in index order, batch
\* N-1's before batch N's.
C4_BatchesInOrder ==
  \A s \in Sessions :
    /\ \A k \in DOMAIN calls[s] :
         (calls[s][k].op = "embed" /\ calls[s][k].batch > 1)
           => LET n == calls[s][k].batch - 1
                  e == FirstCall(calls[s], "embed", n)
                  u == FirstCall(calls[s], "upsert", n)
                  p == FirstCall(calls[s], "progress", n)
              IN /\ 0 < e /\ e < u /\ u < k
                 /\ HasProgressBar(s) => (u < p /\ p < k)
    /\ new_doc_id[s] # None =>
         LET stored == PointsOfDoc(new_doc_id[s])
         IN \A n \in DOMAIN stored : stored[n].payload = chunks[s][n]

\* C4 witness: the embedding call of a third batch was made on the page.
C4_Witness ==
  \E s \in Sessions :
    /\ flow[s] = "page"
    /\ \E k \in DOMAIN calls[s] : calls[s][k].op = "embed" /\ calls[s][k].batch = 3

\* C14: when process_document raises during an upload, the upload ends in
\* the failed state with an error reported: it has made no embedding or
\* upsert call, and the step leaves the in-memory cache, the cache file and
\* the store as they were.
C14_ProcessFailureLeavesNoTrace ==
  [][\A s \in Sessions :
       (pc[s] = "process" /\ pc'[s] = "done")
         => /\ status'[s] = "error"
            /\ \A k \in DOMAIN calls'[s] : ~RemoteCall(calls'[s][k])
            /\ processed_files_cache' = processed_files_cache
            /\ cache_file' = cache_file
            /\ points' = points
            /\ history'[Len(history')].status = "error"
            /\ history'[Len(history')].embed_calls = 0
            /\ history'[Len(history')].upsert_calls = 0]_vars

\* C14 witness: an upload on the page failed in process_document while the
\* cache file held the pair of an earlier upload.
C14_Witness ==
  \E s \in Sessions :
    /\ pc[s] = "done" /\ status[s] = "error" /\ flow[s] = "page"
    /\ cache_file.exists
    /\ Hash(uploaded_file[s].bytes) \notin DOMAIN load_cache(cache_file).value
    /\ calls[s] = <<>>

\* C17 (as claimed): the result of process_document on an upload is well
\* formed: num_chunks is the length of chunks, every chunk has the result's
\* doc_id and the uploaded file's name, and the chunk at zero-based position
\* i has chunk_id "{doc_id}_{i}", so the chunk_ids are pairwise distinct.
C17_ResultWellFormed ==
  \A s \in Sessions :
    new_doc_id[s] # None =>
      /\ process_document(FileObject(flow[s], uploaded_file[s]),
                          new_doc_id[s]).num_chunks = Len(chunks[s])
      /\ \A k \in DOMAIN chunks[s] :
           /\ chunks[s][k].doc_id = new_doc_id[s]
           /\ chunks[s][k].filename = uploaded_file[s].name
           /\ chunks[s][k].chunk_id = <<new_doc_id[s], "_", k - 1>>
      /\ \A j, k \in DOMAIN chunks[s] :
           j # k => chunks[s][j].chunk_id # chunks[s][k].chunk_id

\* Two runs of process_document on the same bytes, by what they stored.
SameContentRuns ==
  {<<j, k>> \in (DOMAIN history) \X (DOMAIN history) :
     /\ j < k
     /\ history[j].hash = history[k].hash
     /\ history[j].doc_id # None
     /\ history[k].doc_id # None}

\* C18 (as claimed): two runs of process_document on the same content give
\* the same chunks: the same texts in the same order with the same chunk
\* identities.
C18_TwoRunsIdenticalChunks ==
  \A r \in SameContentRuns :
    LET a == PointsOfDoc(history[r[1]].doc_id)
        b == PointsOfDoc(history[r[2]].doc_id)
    IN \A n \in 1..Min(Len(a), Len(b)) :
         /\ a[n].payload.text = b[n].payload.text
         /\ a[n].payload.chunk_id = b[n].payload.chunk_id

\* C18 (amended): two runs of process_document on the same content give the
\* same chunk texts in the same order, whatever the file's name and the way
\* it was uploaded, and each run's chunk identities are its own doc_id with
\* the zero-based position.
C18_SameContentSameChunkTexts ==
  \A r \in SameContentRuns :
    LET a == PointsOfDoc(history[r[1]].doc_id)
        b == PointsOfDoc(history[r[2]].doc_id)
    IN \A n \in 1..Min(Len(a), Len(b)) :
         /\ a[n].payload.text = b[n].payload.text
         /\ a[n].payload.chunk_id = <<history[r[1]].doc_id, "_", n - 1>>
         /\ b[n].payload.chunk_id = <<history[r[2]].doc_id, "_", n - 1>>

\* C18 witness: the same bytes were processed twice, under two names and
\* two doc_ids, and both runs stored several chunks.
C18_Witness ==
  \E r \in SameContentRuns :
    /\ history[r[1]].doc_id # history[r[2]].doc_id
    /\ Len(PointsOfDoc(history[r[1]].doc_id)) >= 2
    /\ Len(PointsOfDoc(history[r[2]].doc_id)) >= 2
    /\ \E j, k \in DOMAIN points :
         /\ points[j].payload.doc_id = history[r[1]].doc_id
         /\ points[k].payload.doc_id = history[r[2]].doc_id
         /\ points[j].payload.filename # points[k].payload.filename

\* No page of the PDF has text (or the PDF has no page).
ExtractedTextEmpty(bytes) ==
  \A n \in DOMAIN PdfPages(bytes) : PdfPages(bytes)[n] = <<>>

\* C19 (as claimed): an upload whose extracted text is empty is processed
\* without an error, into no chunks, and no embedding or upsert call is made
\* for it.
C19_EmptyTextNoChunksNoCalls ==
  \A s \in Sessions :
    (new_doc_id[s] # None /\ ExtractedTextEmpty(uploaded_file[s].bytes))
      => /\ chunks[s] = <<>>
         /\ \A k \in DOMAIN calls[s] : ~RemoteCall(calls[s][k])
         /\ status[s] # "error"

(* --------------------------- claims: store ------------------------------ *)

\* Positions of the points a search restricted to the ids F may return.
Eligible(F) ==
  {k \in DOMAIN points : F = {} \/ points[k].payload.doc_id \in F}

\* C5: search with a non-empty filter_doc_ids returns only records whose
\* doc_id is one of the ids (any one of them), and with an empty or absent
\* filter every stored chunk is eligible: in both cases the result is the
\* top_k best of the eligible chunks.
C5_FilterRestrictsSearch ==
  ret.op = "embed_and_search" =>
    LET F == Range(ret.filter_doc_ids)
        q == Embedding(ret.query)
        hits == Range(ret.results)
    IN /\ \A n \in DOMAIN ret.results :
            \E k \in Eligible(F) : points[k].payload = ret.results[n]
       /\ F # {} => \A n \in DOMAIN ret.results : ret.results[n].doc_id \in F
       /\ Len(ret.results) = Min(ret.top_k, Cardinality(Eligible(F)))
       /\ \A k \in Eligible(F) :
            points[k].payload \notin hits =>
              \A j \in Eligible(F) :
                points[j].payload \in hits =>
                  Score(q, points[k].vector) <= Score(q, points[j].vector)

\* C5 witness: a search filtered to one document returned its chunks while
\* a chunk of another document scores higher.
C5_Witness ==
  /\ ret.op = "embed_and_search"
  /\ Len(ret.filter_doc_ids) = 1
  /\ ret.results # <<>>
  /\ \E k \in DOMAIN points :
       /\ points[k].payload.doc_id \notin Range(ret.filter_doc_ids)
       /\ \A n \in DOMAIN ret.results :
            Score(Embedding(ret.query), points[k].vector)
              > Score(Embedding(ret.query), Embedding(ret.results[n].text))

RetrievalOps == {"ask_question", "show_converse_page", "query_page"}

\* C6 (as claimed): get_relevant_chunks(question, vectorstore,
\* filter_doc_ids=F) calls embed_and_search once, with the question
\* unchanged, top_k 5 and filter_doc_ids F, and returns the store's result.
C6_PassesArgumentsOnce ==
  ret.op \in RetrievalOps =>
    /\ ret.raised = "none"
    /\ ret.embed_and_search_calls =
         <<[query |-> ret.question, top_k |-> DefaultTopK,
            filter_doc_ids |-> ret.filter_doc_ids]>>
    /\ ret.results =
         embed_and_search(points, ret.question, DefaultTopK, ret.filter_doc_ids)

RoleMarkers == {"query: ", "passage: "}

HasRoleMarker(text) == text # <<>> /\ text[1] \in RoleMarkers

\* C7 (as claimed): the text the retriever prepares for the embedding carries
\* a role marker exactly when the stored passages were embedded with one.
C7_QueryPrefixMatchesPassages ==
  (ret.op \in RetrievalOps /\ ret.query # None) =>
    \A k \in DOMAIN points :
      HasRoleMarker(ret.query) <=> HasRoleMarker(points[k].vector.embedding_of)

\* C8 (as claimed): a retrieval that no stored chunk can answer yields an
\* empty sequence and no error, and the answer generator is never called
\* with an empty context.
C8_EmptyRetrievalIsEmptySequence ==
  ret.op \in RetrievalOps =>
    /\ Eligible(Range(ret.filter_doc_ids)) = {} =>
         (ret.raised = "none" /\ ret.results = <<>>)
    /\ \A n \in DOMAIN ret.generate_answer_calls :
         ret.generate_answer_calls[n].context # <<>>

\* C9: get_indexed_document_ids returns the doc_id values of the points of
\* the store, each once, whatever the number of points and pages.
C9_EnumeratesDistinctDocIds ==
  ret.op = "get_indexed_document_ids" =>
    /\ Range(ret.doc_ids) = DocIdsInStore
    /\ Len(ret.doc_ids) = Cardinality(DocIdsInStore)

\* C9 witness: the ids of two documents were read from more than two pages.
C9_Witness ==
  /\ ret.op = "get_indexed_document_ids"
  /\ Len(points) > 2 * ScrollLimit
  /\ Len(ret.doc_ids) >= 2

C11_DeleteOutcomeSurfaced ==
  (ret.op = "delete_documents_by_ids"
     /\ ret.delete_status \in {"acknowledged", "raised"})
    => (ret.raised \/ ret.returned # None)

(* ------------------------- claims: the cache ---------------------------- *)

Parses(text) == json_load(text).raised = "none"

\* C13 (as claimed): load_cache() on a file that does not exist, or whose
\* content cannot be parsed, returns an empty mapping and does not raise.
C13_UnparsableOrMissingIsEmpty ==
  (ret.op = "load_cache" /\ (~ret.file.exists \/ ~Parses(ret.file.text)))
    => (ret.raised = "none" /\ ret.value = EmptyDict)

(* ---------------------- claims: the store object ------------------------ *)

\* The endpoint URL, the database's auth token, the embedding provider's.
RequiredSettings == {"QDRANT_URL", "QDRANT_API_KEY", "OPENAI_API_KEY"}

\* C15 (as claimed): a QdrantVectorStore constructed with one of the three
\* settings missing is never built, has made no remote client call, and
\* the error it aborts with names a missing setting.
C15_MissingSettingAbortsBeforeRemoteCall ==
  \A s \in Sessions :
    LET obj == vectorstore[s]
        missing == RequiredSettings \ obj.env
    IN (obj.pc # "none" /\ missing # {})
         => /\ obj.client_calls = <<>>
            /\ obj.pc # "ready"
            /\ obj.pc = "failed" =>
                 (obj.raised.names # {} /\ obj.raised.names \subseteq missing)

\* C16 (as claimed): a step of a store object's initialization calls
\* recreate_collection only when the collection does not exist, and when
\* the collection exists it leaves it there with its points unchanged.
C16_InitCreatesOnlyWhenAbsent ==
  [][\A s \in Sessions :
       vectorstore'[s] # vectorstore[s]
         => /\ (vectorstore[s].pc = "recreate_collection"
                  /\ "QDRANT_COLLECTION" \in vectorstore[s].env)
                 => ~collection_exists
            /\ collection_exists => (collection_exists' /\ points' = points)
            /\ vectorstore'[s].pc = "ready" => collection_exists']_vars

\* C20: the ids of the stored points are pairwise distinct, and a call of
\* upsert leaves the points held before as they were and adds, after them,
\* one point per (vector, metadata) pair, in order, each under an id no
\* point had before: the count grows by the number of pairs, also when the
\* same chunks are upserted again.
C20_UpsertAddsFreshPoints ==
  /\ \A j, k \in DOMAIN points : j # k => points[j].id # points[k].id
  /\ ret.op = "upsert" =>
       LET n == Min(Len(ret.embeddings), Len(ret.metadata_list))
           held == Len(ret.before)
       IN /\ Len(points) = held + n
          /\ SubSeq(points, 1, held) = ret.before
          /\ \A k \in 1..n :
               /\ points[held + k].vector = ret.embeddings[k]
               /\ points[held + k].payload = ret.metadata_list[k]
               /\ \A j \in 1..held : ret.before[j].id # points[held + k].id

\* C20 witness: a batch of chunks that was already stored was upserted
\* again and is now stored twice.
C20_Witness ==
  /\ ret.op = "upsert"
  /\ Len(ret.embeddings) = batch_size
  /\ Len(ret.metadata_list) = batch_size
  /\ \A k \in 1..batch_size :
       \E j \in DOMAIN ret.before :
         /\ ret.before[j].payload = ret.metadata_list[k]
         /\ ret.before[j].vector = ret.embeddings[k]
  /\ Len(points) = Len(ret.before) + batch_size

(* ------------------------- claims: batching ----------------------------- *)

\* C23: the batch about to be embedded or upserted is the next batch_size
\* chunks of the list (fewer at its end, never none), there are
\* ceil(n / batch_size) batches, the vectors handed to upsert are those of
\* the batch's texts in order; and when a run without a failed call has
\* returned, each batch was embedded once and upserted once and the store
\* holds every chunk once, in input order, with the vector of its own text.
C23_BatchesPartitionChunks ==
  \A s \in Sessions :
    LET n == Len(chunks[s])
        nb == NumBatches(n)
        batch == BatchOf(chunks[s], batch_index[s])
    IN /\ n > 0 => ((nb - 1) * batch_size < n /\ n <= nb * batch_size)
       /\ pc[s] \in {"embed", "upsert"} =>
            /\ batch_index[s] < nb
            /\ 1 <= Len(batch) /\ Len(batch) <= batch_size
            /\ \A k \in DOMAIN batch :
                 batch[k] = chunks[s][batch_index[s] * batch_size + k]
            /\ (batch_index[s] + 1 < nb) => Len(batch) = batch_size
       /\ pc[s] = "upsert" =>
            /\ Len(embeddings[s]) = Len(batch)
            /\ \A k \in DOMAIN batch :
                 embeddings[s][k] = Embedding(batch[k].text)
       /\ (pc[s] \in {"returned", "done"} /\ new_doc_id[s] # None
             /\ ~FailedCall(calls[s])) =>
            /\ \A i \in 1..nb :
                 /\ Cardinality({k \in DOMAIN calls[s] :
                       calls[s][k].op = "embed" /\ calls[s][k].batch = i}) = 1
                 /\ Cardinality({k \in DOMAIN calls[s] :
                       calls[s][k].op = "upsert" /\ calls[s][k].batch = i}) = 1
            /\ CountCalls(calls[s], "embed") = nb
            /\ CountCalls(calls[s], "upsert") = nb
            /\ LET stored == PointsOfDoc(new_doc_id[s])
               IN /\ Len(stored) = n
                  /\ \A k \in DOMAIN stored :
                       /\ stored[k].payload = chunks[s][k]
                       /\ stored[k].vector = Embedding(chunks[s][k].text)

\* C23 witness: a run without a failed call has returned after three
\* batches, the last one shorter than batch_size.
C23_Witness ==
  \E s \in Sessions :
    /\ pc[s] = "returned"
    /\ ~FailedCall(calls[s])
    /\ NumBatches(Len(chunks[s])) >= 3
    /\ Len(chunks[s]) % batch_size # 0
    /\ Len(PointsOfDoc(new_doc_id[s])) = Len(chunks[s])

(* ----------------------- claims: two sessions --------------------------- *)

\* Both sessions have finished an upload that was processed (no cache hit).
BothIngested ==
  \A s \in Sessions :
    pc[s] = "done" /\ status[s] = "success" /\ new_doc_id[s] # None

\* C21: when two uploads of different contents, made at the same time, have
\* both succeeded, their doc_ids differ, the ids of the stored points are
\* pairwise distinct, and the store holds the chunks of each document, each
\* once and in order, under that document's doc_id, and nothing else.
C21_DistinctDocumentsStoredOnce ==
  (BothIngested /\ uploaded_file["s1"].bytes # uploaded_file["s2"].bytes)
    => /\ new_doc_id["s1"] # new_doc_id["s2"]
       /\ \A j, k \in DOMAIN points : j # k => points[j].id # points[k].id
       /\ \A s \in Sessions :
            LET stored == PointsOfDoc(new_doc_id[s])
            IN /\ Len(stored) = Len(chunks[s])
               /\ \A n \in DOMAIN stored :
                    /\ stored[n].payload = chunks[s][n]
                    /\ stored[n].vector = Embedding(chunks[s][n].text)
       /\ Len(points) = Len(chunks["s1"]) + Len(chunks["s2"])

\* C21 witness: two uploads of different contents have both succeeded and
\* their batches were stored in turns.
C21_Witness ==
  /\ BothIngested
  /\ uploaded_file["s1"].bytes # uploaded_file["s2"].bytes
  /\ \E i, j, k \in DOMAIN points :
       /\ i < j /\ j < k
       /\ points[i].payload.doc_id = points[k].payload.doc_id
       /\ points[i].payload.doc_id # points[j].payload.doc_id

\* Both sessions uploaded the same bytes on the page and both missed the
\* cache: each has processed, embedded and stored the document.
BothMissedSameContent ==
  /\ BothIngested
  /\ \A s \in Sessions : flow[s] = "page"
  /\ uploaded_file["s1"].bytes = uploaded_file["s2"].bytes

\* C22: when two sessions have ingested the same content at the same time,
\* both having missed the cache, the two runs have different doc_ids, the
\* store holds the chunks of the content under each of the two, and the
\* cache file maps the content's hash to one of them.
C22_RaceStoresTwoDocIds ==
  BothMissedSameContent
    => /\ new_doc_id["s1"] # new_doc_id["s2"]
       /\ \A s \in Sessions :
            LET stored == PointsOfDoc(new_doc_id[s])
            IN /\ Len(stored) = Len(chunks[s])
               /\ \A n \in DOMAIN stored : stored[n].payload = chunks[s][n]
       /\ LET h == Hash(uploaded_file["s1"].bytes)
              cache == load_cache(cache_file).value
          IN h \in DOMAIN cache
               /\ cache[h] \in {new_doc_id["s1"], new_doc_id["s2"]}

\* C22 witness: the race has happened: one content hash, chunks in the store
\* under two doc_ids.
C22_Witness ==
  /\ BothMissedSameContent
  /\ uploaded_file["s1"].bytes = "long"
  /\ Cardinality(DocIdsOfContent("long")) = 2
  /\ \A s \in Sessions : Len(PointsOfDoc(new_doc_id[s])) = MaxChunks

\* C24 (as claimed): when two sessions sharing the cache file have each
\* ingested a different document on the page, the cache file holds an entry
\* for both content hashes.
C24_BothEntriesKept ==
  (/\ BothIngested
   /\ \A s \in Sessions : flow[s] = "page"
   /\ uploaded_file["s1"].bytes # uploaded_file["s2"].bytes)
    => \A s \in Sessions :
         LET h == Hash(uploaded_file[s].bytes)
             cache == load_cache(cache_file).value
         IN h \in DOMAIN cache /\ cache[h] = new_doc_id[s]

====
